---- MODULE Spec2Model ----
(***************************************************************************)
(* Model of the backtesting loop of PieTester.py: backtest() walks the     *)
(* bars of a DataFrame from the second bar onward, asks                    *)
(* evaluate_strategy_on_bar() for a decision and keeps position, cash and  *)
(* the list of trades.                                                     *)
(*                                                                         *)
(* Prices are integer-valued floats far below 2^53, for which the binary64 *)
(* additions and subtractions of the source are exact, so they are plain   *)
(* integers here.  A DataFrame is a sequence of rows; a row is a record    *)
(* with its index label (name, the timestamp) and its Close column, the    *)
(* only column backtest() reads.                                           *)
(***************************************************************************)
EXTENDS Integers, Sequences, FiniteSets, TLC

VARIABLES df, i, trades, position, cash, decision, pc

vars == <<df, i, trades, position, cash, decision, pc>>

----------------------------------------------------------------------------
(* Bounds of the explored inputs *)

\* longest DataFrame explored
MaxLen == 4

\* Close values the rows are drawn from
Prices == {95, 100, 105, 110}

\* index label of the first row, and the differences between the labels of
\* consecutive rows (a difference <= 0 breaks strict timestamp order)
FirstTime == 1
Deltas == {-1, 0, 1, 2}

----------------------------------------------------------------------------
(* Program constants *)

\* COMMISSION_RATE = 0.001, written as a number of thousandths
COMMISSION_RATE == 1
PerMille == 1000

\* cash = 10000.0  # starting capital
StartingCash == 10000

\* position = None
None == [kind |-> "None"]

----------------------------------------------------------------------------
(* Helpers of the model *)

\* df.iloc[k], k counted from 0 as in Python
iloc(d, k) == d[k + 1]

\* the DataFrames explored: every Close sequence over Prices, every label
\* sequence starting at FirstTime and moving by a member of Deltas
RECURSIVE Labels(_)
Labels(n) ==
    IF n = 0 THEN {<<>>}
    ELSE IF n = 1 THEN {<<FirstTime>>}
    ELSE {Append(s, s[n - 1] + dl) : s \in Labels(n - 1), dl \in Deltas}

\* the DataFrame of n rows with index labels ts and Close column cs
Frame(n, ts, cs) == [k \in 1..n |-> [name |-> ts[k], Close |-> cs[k]]]

----------------------------------------------------------------------------
(* evaluate_strategy_on_bar: the dummy rule on the two closes *)

evaluate_strategy_on_bar_GE(current_bar, previous_bar) ==
    IF current_bar.Close >= previous_bar.Close THEN "enter_long" ELSE "exit"

evaluate_strategy_on_bar(current_bar, previous_bar) ==
    IF current_bar.Close > previous_bar.Close THEN "enter_long" ELSE "exit"

----------------------------------------------------------------------------
(* The two branch conditions of the loop body *)

EnterBranch_NoPositionTest(d, pos) == d = "enter_long"

\* if decision == "enter_long" and position is None:
EnterBranch(d, pos) == d = "enter_long" /\ pos = None

\* elif decision == "exit" and position is not None:
ExitBranch(d, pos) == d = "exit" /\ pos # None

----------------------------------------------------------------------------
(* The values built in the branches *)

\* position = {"entry_time": current.name, "entry_price": current["Close"]}
NewPosition(current) ==
    [entry_time |-> current.name, entry_price |-> current.Close]

\* the dict appended in the entry branch
EntryTrade(current) ==
    [Trade |-> "Long Entry", Time |-> current.name,
     Price |-> current.Close, Comment |-> "Entered long"]

ExitTrade_EntryTime(current, pos) ==
    [Trade |-> "Exit", Time |-> pos.entry_time,
     Price |-> current.Close,
     Profit |-> current.Close - pos.entry_price,
     Comment |-> "Exited position"]

\* the dict appended in the exit branch, profit = exit_price - entry_price
ExitTrade(current, pos) ==
    [Trade |-> "Exit", Time |-> current.name,
     Price |-> current.Close,
     Profit |-> current.Close - pos.entry_price,
     Comment |-> "Exited position"]

TradesAfterExit_Overwrite(tr, current, pos) ==
    [tr EXCEPT ![Len(tr)] = ExitTrade(current, pos)]

\* trades.append({...}) of the exit branch
TradesAfterExit(tr, current, pos) == Append(tr, ExitTrade(current, pos))

CashAfterExit_Profit(c, current, pos) == c + (current.Close - pos.entry_price)

\* cash += exit_price
CashAfterExit(c, current, pos) == c + current.Close

PositionAfterExit_Kept(pos) == pos

\* position = None
PositionAfterExit(pos) == None

----------------------------------------------------------------------------
(* State machine *)

\* trades = [], position = None, cash = 10000.0, about to enter the loop
Init ==
    /\ \E n \in 0..MaxLen :
          \E ts \in Labels(n), cs \in [1..n -> Prices] : df = Frame(n, ts, cs)
    /\ i = 1
    /\ trades = <<>>
    /\ position = None
    /\ cash = StartingCash
    /\ decision = "unset"
    /\ pc = "loop"

\* for i in range(1, len(df)) has another index to hand out
InLoop == pc = "loop" /\ i < Len(df)

\* one iteration taking the entry branch
EnterLong ==
    /\ InLoop
    /\ LET current == iloc(df, i)
           previous == iloc(df, i - 1)
           d == evaluate_strategy_on_bar(current, previous)
       IN /\ EnterBranch(d, position)
          /\ position' = NewPosition(current)
          /\ trades' = Append(trades, EntryTrade(current))
          /\ cash' = cash - current.Close
          /\ decision' = d
    /\ i' = i + 1
    /\ UNCHANGED <<df, pc>>

\* one iteration taking the exit branch
ExitPosition ==
    /\ InLoop
    /\ LET current == iloc(df, i)
           previous == iloc(df, i - 1)
           d == evaluate_strategy_on_bar(current, previous)
       IN /\ ~EnterBranch(d, position)
          /\ ExitBranch(d, position)
          /\ trades' = TradesAfterExit(trades, current, position)
          /\ cash' = CashAfterExit(cash, current, position)
          /\ position' = PositionAfterExit(position)
          /\ decision' = d
    /\ i' = i + 1
    /\ UNCHANGED <<df, pc>>

\* one iteration in which neither branch is taken
SkipBar ==
    /\ InLoop
    /\ LET current == iloc(df, i)
           previous == iloc(df, i - 1)
           d == evaluate_strategy_on_bar(current, previous)
       IN /\ ~EnterBranch(d, position)
          /\ ~ExitBranch(d, position)
          /\ decision' = d
    /\ i' = i + 1
    /\ UNCHANGED <<df, trades, position, cash, pc>>

\* the range is exhausted: print the final cash and return trades
Return ==
    /\ pc = "loop"
    /\ ~(i < Len(df))
    /\ pc' = "done"
    /\ UNCHANGED <<df, i, trades, position, cash, decision>>

Next == EnterLong \/ ExitPosition \/ SkipBar \/ Return

Spec == Init /\ [][Next]_vars

----------------------------------------------------------------------------
(* Vocabulary of the properties *)

\* the index labels of the rows are strictly increasing
StrictlyIncreasing(d) == \A k \in 1..(Len(d) - 1) : d[k].name < d[k + 1].name

SeriesTimes == [k \in 1..Len(df) |-> df[k].name]
SeriesCloses == [k \in 1..Len(df) |-> df[k].Close]
TradeTimes(tr) == [k \in 1..Len(tr) |-> tr[k].Time]

NonDecreasing(s) == \A k \in 1..(Len(s) - 1) : s[k] <= s[k + 1]

\* s is obtained from t by deleting elements (greedy leftmost matching)
RECURSIVE IsSubsequence(_, _)
IsSubsequence(s, t) ==
    IF s = <<>> THEN TRUE
    ELSE IF t = <<>> THEN FALSE
    ELSE IF Head(s) = Head(t) THEN IsSubsequence(Tail(s), Tail(t))
    ELSE IsSubsequence(s, Tail(t))

IsPrefix(s, t) == Len(s) <= Len(t) /\ SubSeq(t, 1, Len(s)) = s

CountKind(tr, kind) == Cardinality({k \in 1..Len(tr) : tr[k].Trade = kind})

\* 'Long Entry' trades minus 'Exit' trades among the first n trades
OpenCount(tr, n) ==
    CountKind(SubSeq(tr, 1, n), "Long Entry") - CountKind(SubSeq(tr, 1, n), "Exit")

RECURSIVE RealizedProfit(_)
RealizedProfit(tr) ==
    IF tr = <<>> THEN 0
    ELSE (IF Head(tr).Trade = "Exit" THEN Head(tr).Profit ELSE 0)
         + RealizedProfit(Tail(tr))

\* no bar closes strictly above the bar before it
NoEnterSignal(d) == \A k \in 1..(Len(d) - 1) : ~(d[k + 1].Close > d[k].Close)

----------------------------------------------------------------------------
(* Properties *)

\* C1: after every processed bar, in every prefix of the ledger the number
\* of 'Long Entry' trades minus the number of 'Exit' trades is 0 or 1, and
\* for the whole ledger it is 1 exactly when position is not None.
C1_AtMostOneOpenPosition ==
    /\ \A n \in 0..Len(trades) : OpenCount(trades, n) \in {0, 1}
    /\ (OpenCount(trades, Len(trades)) = 1) <=> (position # None)

\* a second position is open after a first one was closed
C1_Witness ==
    /\ position # None
    /\ Len(trades) >= 3
    /\ CountKind(trades, "Exit") >= 1

\* C2: on closes [100, 105, 95, 110] with t0<t1<t2<t3 the returned ledger
\* has exactly 2 trades, the entry at 105 (t1) and the exit at 95 (t2) with
\* profit -10, and the entry at 110 on the last bar is not in the ledger.
C2_ScenarioLedgerHasTwoTrades ==
    (pc = "done" /\ SeriesCloses = <<100, 105, 95, 110>> /\ StrictlyIncreasing(df))
        => /\ Len(trades) = 2
           /\ trades[1].Trade = "Long Entry"
           /\ trades[1].Price = 105
           /\ trades[1].Time = df[2].name
           /\ trades[2].Trade = "Exit"
           /\ trades[2].Price = 95
           /\ trades[2].Time = df[3].name
           /\ trades[2].Profit = -10
           /\ \A k \in 1..Len(trades) :
                 ~(trades[k].Trade = "Long Entry" /\ trades[k].Price = 110)

\* C3: for a series with strictly increasing timestamps, the Time fields of
\* the trades, in ledger order, are a subsequence of the series timestamps
\* and are in non-decreasing order.
C3_TradeTimesSubsequence ==
    StrictlyIncreasing(df)
        => /\ IsSubsequence(TradeTimes(trades), SeriesTimes)
           /\ NonDecreasing(TradeTimes(trades))

\* a run over strictly increasing timestamps that entered, exited and entered
C3_Witness ==
    /\ StrictlyIncreasing(df)
    /\ Len(trades) >= 3
    /\ pc = "done"

\* C4: the Profit of every Exit trade is (exit_price - entry_price) x size
\* x direction_sign minus the commissions of the round trip, each being
\* COMMISSION_RATE times the notional, and an entry debits cash by
\* price x size plus its commission (size 1, long; amounts in thousandths).
C4_ProfitNetOfCommission ==
    /\ \A k \in 2..Len(trades) :
          trades[k].Trade = "Exit"
              => PerMille * trades[k].Profit
                   = PerMille * (trades[k].Price - trades[k - 1].Price)
                     - COMMISSION_RATE * (trades[k].Price + trades[k - 1].Price)
    /\ (Len(trades) = 1 /\ position # None)
          => PerMille * cash
               = PerMille * StartingCash
                 - (PerMille * trades[1].Price + COMMISSION_RATE * trades[1].Price)

\* C5: when a bar's timestamp is not greater than its predecessor's, the run
\* is aborted and zero trades are emitted: the ledger of such a series is
\* never non-empty, during the run or at its return.
C5_NonMonotonicSeriesEmitsNoTrades ==
    ~StrictlyIncreasing(df) => trades = <<>>

\* C6: when no bar's close is strictly greater than the previous bar's close
\* (series of 0 or 1 bars included), the trade list is empty and cash is the
\* starting 10000.
C6_NoSignalNoTrades ==
    NoEnterSignal(df) => (trades = <<>> /\ cash = StartingCash)

\* a finished run over at least three bars none of which rose
C6_Witness ==
    /\ pc = "done"
    /\ Len(df) >= 3
    /\ NoEnterSignal(df)
    /\ decision = "exit"
    /\ trades = <<>>

\* C7: a bar whose decision is 'enter_long' while a position is open, or
\* 'exit' while flat, leaves position, cash and the ledger unchanged.
C7_DisabledSignalIsNoOp ==
    [][InLoop =>
        LET d == evaluate_strategy_on_bar(iloc(df, i), iloc(df, i - 1))
        IN ((d = "enter_long" /\ position # None) \/ (d = "exit" /\ position = None))
              => UNCHANGED <<position, cash, trades>>]_vars

\* the bar just processed said enter_long while a position opened on an
\* earlier bar was still open
C7_Witness ==
    /\ i >= 3
    /\ decision = "enter_long"
    /\ position # None
    /\ position # NewPosition(iloc(df, i - 1))
    /\ trades[Len(trades)].Trade = "Long Entry"

\* C8: every 'Long Entry' is followed by its Exit on a later bar, or is the
\* last trade with its position still open; at the end of the run such an
\* open position is reported by a mark-to-market record at the last close,
\* which is neither the entry nor a realized Exit.
C8_OpenPositionMarkedToMarket ==
    /\ \A k \in 1..Len(trades) :
          trades[k].Trade = "Long Entry"
              => \/ /\ k < Len(trades)
                    /\ trades[k + 1].Trade = "Exit"
                 \/ /\ k = Len(trades)
                    /\ position # None
    /\ (pc = "done" /\ position # None)
          => \E k \in 1..Len(trades) :
                /\ trades[k].Trade \notin {"Long Entry", "Exit"}
                /\ trades[k].Price = df[Len(df)].Close

\* C9: the ledger after a step has the ledger before it as a prefix, and is
\* at most one trade longer.
C9_LedgerAppendOnly ==
    [][IsPrefix(trades, trades') /\ Len(trades') <= Len(trades) + 1]_vars

\* an Exit was appended behind an earlier entry
C9_Witness ==
    /\ Len(trades) >= 2
    /\ trades[Len(trades)].Trade = "Exit"
    /\ trades[Len(trades) - 1].Trade = "Long Entry"

====
